---- MODULE Spec2Model ----
(***************************************************************************)
(* LockFreeMemoryPool<T, poolSize>: a fixed-capacity pool with a global    *)
(* lock-free free list (CAS pop) and a per-thread cache of freed slots.    *)
(* Model of src/LockFreeMemoryPool.hpp and of the caller in                *)
(* src/unnamed/part_000 (LockFreeMemoryPool.cpp).                          *)
(*                                                                         *)
(* A slot is identified by a positive integer; slot i of pool p is the     *)
(* address buffer_p + (i-1) * sizeof(T).  The link field FreeNode::next    *)
(* overlaid on the first bytes of every slot is the memory `next`.         *)
(***************************************************************************)
EXTENDS Integers, Sequences, FiniteSets, TLC

\* ---------------------------------------------------------------- bounds
\* template parameter poolSize (capacity N of every pool of the type)
PoolSize == 2
\* number of threads that use the pools
NumThreads == 2
\* most pointers the callers hold at once where pools come and go
MaxHeld == 2
\* largest poolSize of a constructor run followed at the level of bytes
MaxCap == 16
\* largest sizeof(T) of a constructor run followed at the level of bytes
MaxElemSize == 16
\* ------------------------------------------------------------- constants
\* nullptr
Null == 0
\* bytes that hold caller data (an Order), not a link the pool wrote; read as
\* a pointer: an address that is no slot of a pool that exists
Garbage == -1

Threads == 1..NumThreads
\* the pool objects of the one type LockFreeMemoryPool<T, poolSize>; the type
\* has one static thread_local _localCache per thread for all of them
Pools == {1, 2}
\* buffer + i * sizeof(T), i < poolSize, of pool p
SlotOf(p, i) == (p - 1) * PoolSize + i
SlotsOf(p) == {SlotOf(p, i) : i \in 1..PoolSize}
Slots == UNION {SlotsOf(p) : p \in Pools}

VARIABLES
    live,        \* the pool objects that exist (constructed, not destroyed)
    freeList,    \* freeList[p]: std::atomic<FreeNode*> head of pool p
    next,        \* next[s]: the FreeNode::next bytes of slot s
    localCache,  \* localCache[t]: static thread_local _localCache of thread t
    pc,          \* pc[t]: where thread t is inside allocate ("idle": outside)
    pool,        \* pool[t]: the pool object thread t's allocate runs on
    head,        \* head[t]: local `head` of allocate
    nxt,         \* nxt[t]: local `next` of allocate
    inUse,       \* inUse[p][s]: pointers to s handed out by p.allocate() and
                 \*   not yet given to deallocate (what the callers hold)
    freed,       \* freed[t]: history: the slots thread t deallocated and has
                 \*   not received back, most recent first
    ctor         \* one run of the constructor seen at the level of bytes:
                 \*   its template arguments, its locals and the block

vars == <<live, freeList, next, localCache, pc, pool, head, nxt, inUse, freed,
          ctor>>

\* ------------------------------------------------------------ constructor
\* The chain built by the constructor's loop: slot i links to the head seen
\* before it, slot 0 to nullptr.
InitialNext(p, i) == IF i = 1 THEN Null ELSE SlotOf(p, i - 1)
\* Mutant: the loop stops one slot early, the last slot is never threaded.
InitialHead_OffByOne(p) == IF PoolSize <= 1 THEN Null ELSE SlotOf(p, PoolSize - 1)
\* The head published by freeList.store: the last slot threaded.
InitialHead(p) == IF PoolSize = 0 THEN Null ELSE SlotOf(p, PoolSize)

PoolOf(s) == CHOOSE p \in Pools : s \in SlotsOf(p)
IndexOf(s) == s - (PoolOf(s) - 1) * PoolSize

\* A constructor run for capacity n and element size sz, at step at.
CtorAt(n, sz, at) ==
    [N |-> n, S |-> sz, pcc |-> at, size |-> 0, align |-> 0, mem |-> <<>>,
     i |-> 0, head |-> Null, freeList |-> Null, over |-> FALSE, got |-> <<>>]
\* No constructor run is followed at the level of bytes.
CtorNone == CtorAt(0, 0, "none")

\* The pools in L constructed, no call made yet.
InitPools(L) ==
    /\ live = L
    /\ freeList = [p \in Pools |-> IF p \in L THEN InitialHead(p) ELSE Null]
    /\ next = [s \in Slots |->
                 IF PoolOf(s) \in L THEN InitialNext(PoolOf(s), IndexOf(s))
                 ELSE Garbage]
    /\ localCache = [t \in Threads |-> Null]
    /\ pc = [t \in Threads |-> "idle"]
    /\ pool = [t \in Threads |-> 0]
    /\ head = [t \in Threads |-> Null]
    /\ nxt = [t \in Threads |-> Null]
    /\ inUse = [p \in Pools |-> [s \in Slots |-> 0]]
    /\ freed = [t \in Threads |-> <<>>]

\* State after constructing the pools in L, no call made yet.
InitWith(L) == ctor = CtorNone /\ InitPools(L)

\* ---------------------------------------------------------------- memory
\* The values a pointer can take: nullptr, a slot of a pool that exists, or
\* an address elsewhere.
Ptr == UNION {SlotsOf(p) : p \in live} \cup {Null, Garbage}
\* What a read of s->next can yield: the stored link, or any pointer value
\* when the bytes hold caller data or s is no slot at all.
ReadLink(s) == IF s \in Slots /\ next[s] # Garbage THEN {next[s]} ELSE Ptr

\* allocate returns r to its caller on thread t (r = Null: pool exhausted).
Return(t, r) ==
    /\ inUse' = IF r = Null THEN inUse
                ELSE [inUse EXCEPT ![pool[t]][r] = @ + 1]
    /\ freed' = IF freed[t] = <<>> THEN freed
                ELSE [freed EXCEPT ![t] = Tail(@)]
    /\ pc' = [pc EXCEPT ![t] = "idle"]
    /\ pool' = [pool EXCEPT ![t] = 0]
    /\ head' = [head EXCEPT ![t] = Null]
    /\ nxt' = [nxt EXCEPT ![t] = Null]

\* --------------------------------------------------------------- allocate
\* Thread t calls p.allocate().
AllocCall(t, p) ==
    /\ pc[t] = "idle"
    /\ p \in live
    /\ pc' = [pc EXCEPT ![t] = "start"]
    /\ pool' = [pool EXCEPT ![t] = p]
    /\ UNCHANGED <<ctor, live, freeList, next, localCache, head, nxt, inUse, freed>>

\* Mutant: the cache is one static pointer shared by all threads (thread 1's).
AllocLocal_Shared(t) ==
    /\ pc[t] = "start"
    /\ localCache[1] # Null
    /\ \E v \in ReadLink(localCache[1]) :
          localCache' = [localCache EXCEPT ![1] = v]
    /\ Return(t, localCache[1])
    /\ UNCHANGED <<ctor, live, freeList, next>>

\* Mutant: the cached node is returned but the cache head is not advanced.
AllocLocal_NoAdvance(t) ==
    /\ pc[t] = "start"
    /\ localCache[t] # Null
    /\ Return(t, localCache[t])
    /\ UNCHANGED <<ctor, live, freeList, next, localCache>>

\* Fast path: pop the thread-local cache.
AllocLocal(t) ==
    /\ pc[t] = "start"
    /\ localCache[t] # Null
    /\ \E v \in ReadLink(localCache[t]) :
          localCache' = [localCache EXCEPT ![t] = v]
    /\ Return(t, localCache[t])
    /\ UNCHANGED <<ctor, live, freeList, next>>

\* Mutant: the slow path is entered without looking at the local cache.
AllocLoad_SkipCache(t) ==
    /\ pc[t] = "start"
    /\ head' = [head EXCEPT ![t] = freeList[pool[t]]]
    /\ pc' = [pc EXCEPT ![t] = "loop"]
    /\ UNCHANGED <<ctor, live, freeList, next, localCache, pool, nxt, inUse, freed>>

\* Slow path entry: the cache is empty, load the global head.
AllocLoad(t) ==
    /\ pc[t] = "start"
    /\ localCache[t] = Null
    /\ head' = [head EXCEPT ![t] = freeList[pool[t]]]
    /\ pc' = [pc EXCEPT ![t] = "loop"]
    /\ UNCHANGED <<ctor, live, freeList, next, localCache, pool, nxt, inUse, freed>>

\* Loop body, first statement: next = head->next.
AllocReadNext(t) ==
    /\ pc[t] = "loop"
    /\ head[t] # Null
    /\ \E v \in ReadLink(head[t]) : nxt' = [nxt EXCEPT ![t] = v]
    /\ pc' = [pc EXCEPT ![t] = "cas"]
    /\ UNCHANGED <<ctor, live, freeList, next, localCache, pool, head, inUse, freed>>

\* Mutant: the head is exchanged without comparing it with the observed one.
AllocCasOk_NoCompare(t) ==
    /\ pc[t] = "cas"
    /\ freeList' = [freeList EXCEPT ![pool[t]] = nxt[t]]
    /\ Return(t, head[t])
    /\ UNCHANGED <<ctor, live, next, localCache>>

\* compare_exchange_weak succeeds: freeList == head, freeList := next.
AllocCasOk(t) ==
    /\ pc[t] = "cas"
    /\ freeList[pool[t]] = head[t]
    /\ freeList' = [freeList EXCEPT ![pool[t]] = nxt[t]]
    /\ Return(t, head[t])
    /\ UNCHANGED <<ctor, live, next, localCache>>

\* Mutant: a failed exchange does not refresh the expected value.
AllocCasFail_NoReload(t) ==
    /\ pc[t] = "cas"
    /\ pc' = [pc EXCEPT ![t] = "loop"]
    /\ UNCHANGED <<ctor, live, freeList, next, localCache, pool, head, nxt, inUse, freed>>

\* compare_exchange_weak fails (another thread moved the head, or the weak
\* form failed spuriously): head := freeList, loop again.
AllocCasFail(t) ==
    /\ pc[t] = "cas"
    /\ head' = [head EXCEPT ![t] = freeList[pool[t]]]
    /\ pc' = [pc EXCEPT ![t] = "loop"]
    /\ UNCHANGED <<ctor, live, freeList, next, localCache, pool, nxt, inUse, freed>>

\* Loop exit with head == nullptr: return nullptr.
AllocExhausted(t) ==
    /\ pc[t] = "loop"
    /\ head[t] = Null
    /\ Return(t, Null)
    /\ UNCHANGED <<ctor, live, freeList, next, localCache>>

\* ------------------------------------------------------------- deallocate
\* Mutant: the node is pushed onto the pool's global free list.
Deallocate_ToGlobal(t, p, s) ==
    /\ pc[t] = "idle"
    /\ p \in live
    /\ inUse[p][s] > 0
    /\ next' = [next EXCEPT ![s] = freeList[p]]
    /\ freeList' = [freeList EXCEPT ![p] = s]
    /\ inUse' = [inUse EXCEPT ![p][s] = @ - 1]
    /\ UNCHANGED <<ctor, live, localCache, pc, pool, head, nxt, freed>>

\* Mutant: the pushed node is not linked to the previous cache head.
Deallocate_NullLink(t, p, s) ==
    /\ pc[t] = "idle"
    /\ p \in live
    /\ inUse[p][s] > 0
    /\ next' = [next EXCEPT ![s] = Null]
    /\ localCache' = [localCache EXCEPT ![t] = s]
    /\ inUse' = [inUse EXCEPT ![p][s] = @ - 1]
    /\ freed' = [freed EXCEPT ![t] = <<s>> \o @]
    /\ UNCHANGED <<ctor, live, freeList, pc, pool, head, nxt>>

\* Thread t calls p.deallocate(s); s was returned by p.allocate() and has
\* not been deallocated since (the caller's precondition).
Deallocate(t, p, s) ==
    /\ pc[t] = "idle"
    /\ p \in live
    /\ inUse[p][s] > 0
    /\ next' = [next EXCEPT ![s] = localCache[t]]
    /\ localCache' = [localCache EXCEPT ![t] = s]
    /\ inUse' = [inUse EXCEPT ![p][s] = @ - 1]
    /\ freed' = [freed EXCEPT ![t] = <<s>> \o @]
    /\ UNCHANGED <<ctor, live, freeList, pc, pool, head, nxt>>

\* ----------------------------------------------------------------- caller
\* A caller constructs an object in a slot it holds (placement new): the
\* link bytes now hold object data.
CallerWrite(s) ==
    /\ \E t \in Threads : pc[t] = "idle"
    /\ \E p \in Pools : inUse[p][s] > 0
    /\ next[s] # Garbage
    /\ next' = [next EXCEPT ![s] = Garbage]
    /\ UNCHANGED <<ctor, live, freeList, localCache, pc, pool, head, nxt, inUse, freed>>

\* ------------------------------------------------------- derived structure
\* The slots reached from pointer h by following the stored links, at most n
\* of them (n > number of slots, so a cycle shows as a repeated slot).
RECURSIVE Chain(_, _)
Chain(h, n) ==
    IF n = 0 \/ h \notin Slots THEN <<>>
    ELSE <<h>> \o Chain(next[h], n - 1)

RECURSIVE ChainEnd(_, _)
\* The pointer at which the chain from h stops (nullptr for a proper list).
ChainEnd(h, n) ==
    IF n = 0 \/ h \notin Slots THEN h
    ELSE ChainEnd(next[h], n - 1)

RECURSIVE ChainSet(_, _)
\* The set of slots reached from pointer h.
ChainSet(h, n) ==
    IF n = 0 \/ h \notin Slots THEN {}
    ELSE {h} \cup ChainSet(next[h], n - 1)

MaxChain == Cardinality(Slots) + 1
\* The slots in the global free list of pool p / in thread t's local cache.
GlobalSet(p) == ChainSet(freeList[p], MaxChain)
CacheSet(t) == ChainSet(localCache[t], MaxChain)
\* The global free list of pool p, head first.
GlobalSeq(p) == Chain(freeList[p], MaxChain)
\* Thread t's local cache, head (most recently freed) first.
CacheSeq(t) == Chain(localCache[t], MaxChain)
\* Number of times s occurs in sequence q.
Occ(q, s) == Cardinality({i \in DOMAIN q : q[i] = s})

RECURSIVE SumOver(_, _)
SumOver(f, S) ==
    IF S = {} THEN 0
    ELSE LET x == CHOOSE y \in S : TRUE IN f[x] + SumOver(f, S \ {x})

\* Outstanding hand-outs of slot s (by any pool object's allocate).
InUseCount(s) == SumOver([p \in Pools |-> inUse[p][s]], Pools)
\* Slots handed out by p.allocate() and not yet given back.
HandedOut(p) == SumOver(inUse[p], Slots)
\* Occurrences of s in the global free lists and in the local caches.
InGlobal(s) == SumOver([p \in Pools |-> Occ(GlobalSeq(p), s)], live)
InCaches(s) == SumOver([t \in Threads |-> Occ(CacheSeq(t), s)], Threads)

\* Thread t's allocate call returns in this step.
Returns(t) == pc[t] # "idle" /\ pc'[t] = "idle"
\* ... and returns slot s / returns nullptr.
ReturnsSlot(t, s) == Returns(t) /\ inUse'[pool[t]][s] = inUse[pool[t]][s] + 1
ReturnsNone(t) == Returns(t) /\ inUse' = inUse

\* ---------------------------------------------------------- specifications
\* A step of thread t on allocate's slow path.
AllocSlow(t) ==
    \/ AllocLoad(t)
    \/ AllocReadNext(t)
    \/ AllocCasOk(t)
    \/ AllocCasFail(t)
    \/ AllocExhausted(t)

\* A step of thread t inside allocate.
AllocRun(t) ==
    \/ AllocLocal(t)
    \/ AllocSlow(t)

AllocStep(t) ==
    \/ \E p \in Pools : AllocCall(t, p)
    \/ AllocRun(t)

Next ==
    \/ \E t \in Threads : AllocStep(t)
    \/ \E t \in Threads, p \in Pools, s \in Slots : Deallocate(t, p, s)
    \/ \E s \in Slots : CallerWrite(s)

\* One pool object, any number of threads.
Init == InitWith({1})
Spec == Init /\ [][Next]_vars

\* Thread 1 keeps being scheduled while it is inside allocate, and its weak
\* compare-and-swap does not fail forever when the head equals the expected
\* value infinitely often; every other thread may stop anywhere, for ever.
SpecLockFree ==
    Init /\ [][Next]_vars /\ WF_vars(AllocRun(1)) /\ SF_vars(AllocCasOk(1))

\* One fresh pool object on which no deallocate call is ever made.  Only
\* deallocate fills a cache, so the fast path AllocLocal is never enabled
\* here (C3_ExhaustionExact checks that every cache stays empty) and is left
\* out of the next-state relation.
NextNoDealloc ==
    \/ \E t \in Threads, p \in Pools : AllocCall(t, p)
    \/ \E t \in Threads : AllocSlow(t)
    \/ \E s \in Slots : CallerWrite(s)
SpecNoDealloc == Init /\ [][NextNoDealloc]_vars

\* Every pool object of the type constructed; the callers leave the link
\* bytes of the slots they hold alone.
InitMulti == InitWith(Pools)
NextMulti ==
    \/ \E t \in Threads : AllocStep(t)
    \/ \E t \in Threads, p \in Pools, s \in Slots : Deallocate(t, p, s)
SpecMulti == InitMulti /\ [][NextMulti]_vars

\* ================================================================== claims

\* C1 (slot partition): in every reachable state each slot of the pool is in
\* exactly one place: once in the global free list, or once in exactly one
\* thread's local cache, or held by exactly one caller; both kinds of list
\* end in nullptr.
C1_SlotPartition ==
    /\ \A s \in SlotsOf(1) : InGlobal(s) + InCaches(s) + InUseCount(s) = 1
    /\ ChainEnd(freeList[1], MaxChain) = Null
    /\ \A t \in Threads : ChainEnd(localCache[t], MaxChain) = Null

\* C1 witness: a slot in one thread's cache, another held by a caller, while
\* the other thread is inside the CAS loop.
C1_Witness ==
    \E t, u \in Threads, s, r \in SlotsOf(1) :
        /\ t # u /\ s # r
        /\ Occ(CacheSeq(t), s) = 1
        /\ InUseCount(r) = 1
        /\ pc[u] = "cas"

\* C2 (exclusivity): no slot is held through two allocate returns at once:
\* between two returns of the same slot there is a deallocate of it.
C2_Exclusivity == \A s \in Slots : InUseCount(s) <= 1

\* C2 witness: two threads observed the same head; one was handed it, the
\* other still stands before its compare-and-swap with that head.
C2_Witness ==
    \E t \in Threads :
        /\ pc[t] = "cas"
        /\ head[t] \in Slots
        /\ InUseCount(head[t]) = 1

\* C3 (exhaustion exactness), fresh pool, no deallocate: the slots handed out
\* are pairwise distinct and never more than N, and an allocate call returns
\* nullptr exactly when N calls have already returned a slot; so exactly N
\* calls succeed and every call made after them gets nullptr.
C3_ExhaustionExact ==
    /\ [](HandedOut(1) <= PoolSize /\ \A s \in Slots : inUse[1][s] <= 1)
    /\ [](\A t \in Threads : localCache[t] = Null)
    /\ [][\A t \in Threads :
            Returns(t) => (ReturnsNone(t) <=> HandedOut(1) = PoolSize)]_vars

\* C3 witness: all N slots are handed out and a further call has found the
\* list empty.
C3_Witness ==
    /\ HandedOut(1) = PoolSize
    /\ \E t \in Threads : pc[t] = "loop" /\ head[t] = Null

\* The calling thread's cache is empty and the head it observed is nullptr.
ObservedEmpty(t) == pc[t] = "loop" /\ localCache[t] = Null /\ head[t] = Null
\* Every slot of pool p is held by a caller.
AllInUse(p) == \A s \in SlotsOf(p) : InUseCount(s) = 1

\* C4 (exhaustion is a value): a returning allocate call returns nullptr
\* exactly when the caller's cache is empty and the observed global head is
\* nullptr; such a return changes neither the global heads, nor any cache, nor
\* any link, nor what is in use; with all N slots in use the return is nullptr.
C4_ExhaustionValue ==
    [][\A t \in Threads :
          /\ Returns(t) => (ReturnsNone(t) <=> ObservedEmpty(t))
          /\ (Returns(t) /\ ObservedEmpty(t)) =>
                /\ freeList' = freeList
                /\ localCache' = localCache
                /\ next' = next
                /\ inUse' = inUse
          /\ (Returns(t) /\ AllInUse(pool[t])) => ReturnsNone(t)]_vars

\* C4 witness: a call is about to return nullptr although a slot is free in
\* the other thread's cache.
C4_Witness ==
    \E t, u \in Threads :
        /\ t # u
        /\ ObservedEmpty(t)
        /\ localCache[u] # Null

\* C5 (local-cache priority, LIFO): whenever an allocate call returns on a
\* thread that has deallocated slots it has not yet received back, it returns
\* the most recently deallocated of them and leaves every global head as it
\* was; the thread's cache is those slots, most recent first.
C5_LocalLifo ==
    /\ [](\A t \in Threads : CacheSeq(t) = freed[t])
    /\ [][\A t \in Threads :
            (Returns(t) /\ freed[t] # <<>>) =>
                /\ ReturnsSlot(t, Head(freed[t]))
                /\ freed'[t] = Tail(freed[t])
                /\ freeList' = freeList]_vars

\* C5 witness: a thread has deallocated two slots and then called allocate,
\* while the other thread is in the middle of a call of its own.
C5_Witness ==
    \E t, u \in Threads :
        /\ t # u
        /\ pc[t] = "start"
        /\ Len(freed[t]) = 2
        /\ pc[u] \in {"loop", "cas"}

\* C6 (capacity): the slots handed out by the pool's allocate and not yet
\* given back never number more than N.
C6_Capacity == HandedOut(1) <= PoolSize

\* C6 witness: all N slots are in use again after one of them went through a
\* thread's cache (its link is one that deallocate wrote).
C6_Witness ==
    /\ HandedOut(1) = PoolSize
    /\ \E s \in SlotsOf(1) :
          next[s] \notin {Garbage, InitialNext(1, IndexOf(s))}

\* C7 (pool provenance): every slot handed out by p.allocate() lies inside
\* pool p's own storage block.
C7_Provenance ==
    \A p \in Pools, s \in Slots : inUse[p][s] > 0 => s \in SlotsOf(p)

\* C8 (lock-freedom): a thread that keeps being scheduled inside allocate
\* completes its call, whatever the other threads do and wherever they stop;
\* so whenever threads are in the CAS loop and are scheduled, a call completes.
C8_LockFree == (pc[1] # "idle") ~> (pc[1] = "idle")

\* C8 witness: both threads stand before their compare-and-swap with the same
\* observed head.
C8_Witness ==
    /\ pc[1] = "cas" /\ pc[2] = "cas"
    /\ head[1] = head[2]
    /\ head[1] \in Slots

\* A pointer to slot s is given to deallocate in this step.
GivenBack(s) == inUse' # inUse /\ InUseCount(s)' < InUseCount(s)

\* C9 (deallocate frame): a step that gives slot s back changes only the
\* link of s and the cache head of one thread t, which becomes s with s
\* linked to t's previous head; every global head, every global list, every
\* other link, every other cache and every thread's position stay as they are.
C9_DeallocFrame ==
    [][\A s \in Slots : GivenBack(s) =>
          /\ freeList' = freeList
          /\ \A p \in Pools : GlobalSeq(p)' = GlobalSeq(p)
          /\ \A x \in Slots \ {s} : next'[x] = next[x]
          /\ \E t \in Threads :
                /\ localCache'[t] = s
                /\ next'[s] = localCache[t]
                /\ \A u \in Threads \ {t} : localCache'[u] = localCache[u]
          /\ pc' = pc /\ head' = head /\ nxt' = nxt /\ pool' = pool]_vars

\* C9 witness: a slot was just pushed on a thread's cache while the global
\* list is not empty and the other thread stands before its compare-and-swap.
C9_Witness ==
    \E t, u \in Threads :
        /\ t # u
        /\ localCache[t] # Null
        /\ freeList[1] # Null
        /\ pc[u] = "cas"

\* Where slot s is: in a global list, in thread t's cache, or in use.
SlotState(s) ==
    IF \E p \in live : s \in GlobalSet(p) THEN <<"FreeGlobal", 0>>
    ELSE IF \E t \in Threads : s \in CacheSet(t)
         THEN <<"FreeLocalCache", CHOOSE t \in Threads : s \in CacheSet(t)>>
    ELSE IF \E p \in Pools : inUse[p][s] > 0 THEN <<"InUse", 0>>
    ELSE <<"Nowhere", 0>>

\* C10 (per-slot state machine): in one step a slot stays where it is, or
\* goes Free-Global -> InUse (it was the global head and is popped), or
\* InUse -> Free-LocalCache(t), or Free-LocalCache(t) -> InUse by a return of
\* thread t's own allocate; the set of slots in the global list only shrinks.
C10_SlotMachine ==
    [][\/ UNCHANGED <<freeList, next, localCache, inUse>>
       \/ /\ \A s \in SlotsOf(1) :
                LET a == SlotState(s)
                    b == SlotState(s)'
                IN  \/ a = b
                    \/ /\ a[1] = "FreeGlobal" /\ b[1] = "InUse"
                       /\ freeList[1] = s /\ freeList'[1] # s
                    \/ a[1] = "InUse" /\ b[1] = "FreeLocalCache"
                    \/ /\ a[1] = "FreeLocalCache" /\ b[1] = "InUse"
                       /\ ReturnsSlot(a[2], s)
          /\ \A p \in Pools : GlobalSet(p)' \subseteq GlobalSet(p)]_vars

\* C10 witness: a slot that went through a thread's cache is in use again
\* while another slot sits in a cache.
C10_Witness ==
    \E s, r \in SlotsOf(1) :
        /\ SlotState(s)[1] = "InUse"
        /\ next[s] \notin {Garbage, InitialNext(1, IndexOf(s))}
        /\ SlotState(r)[1] = "FreeLocalCache"

\* C11 (cross-thread starvation is permanent): an empty global list stays
\* empty; a call returning on a thread whose cache is empty while the global
\* list is empty returns nullptr, however many slots lie in other threads'
\* caches; and no allocate call returns a slot that lies in another thread's
\* cache.
C11_Starvation ==
    [][/\ freeList[1] = Null => freeList'[1] = Null
       /\ \A t \in Threads :
            Returns(t) =>
               /\ (freeList[1] = Null /\ localCache[t] = Null) => ReturnsNone(t)
               /\ \A u \in Threads \ {t} : \A s \in CacheSet(u) :
                     ~ReturnsSlot(t, s)]_vars

\* C11 witness: every slot of the pool lies in one thread's cache and the
\* other thread's call has found the global list empty.
C11_Witness ==
    \E t, u \in Threads :
        /\ t # u
        /\ ObservedEmpty(t)
        /\ CacheSet(u) = SlotsOf(1)

\* Position of pointer h in the chain built at construction: the number of
\* slots from h to the end of that chain.
Rank(h) == IF h \in Slots THEN IndexOf(h) ELSE 0
\* Thread t's compare-and-swap fails in this step.
CasFails(t) == pc[t] = "cas" /\ pc'[t] = "loop"

\* C12 as claimed (bounded spinning): every failed compare-and-swap finds a
\* global head different from the one the call last read, that is, another
\* thread popped in between.
C12_EveryFailureIsAPop ==
    [][\A t \in Threads : CasFails(t) => freeList[pool[t]] # head[t]]_vars

\* C12 as amended: a compare-and-swap that fails with the global head changed
\* since the call read it finds the slot it read popped (in use or in a
\* cache) and reloads a head strictly further down the construction chain, so
\* one call has at most N such failures; in every other step of the call the
\* observed head stays as it is (a failure with the head unchanged, which the
\* weak compare-and-swap allows, repeats the attempt on the same head).
C12_RealFailuresBounded ==
    [][\A t \in Threads :
          /\ (CasFails(t) /\ freeList[pool[t]] # head[t]) =>
                /\ head[t] \notin GlobalSet(pool[t])
                /\ Rank(head'[t]) < Rank(head[t])
                /\ Rank(head[t]) <= PoolSize
          /\ (CasFails(t) /\ freeList[pool[t]] = head[t]) => head'[t] = head[t]
          /\ (pc[t] = "loop" /\ pc'[t] = "cas") => head'[t] = head[t]]_vars

\* C12 witness: a thread stands before a compare-and-swap that must fail: the
\* head it read has been popped by the other thread.
C12_Witness ==
    \E t \in Threads :
        /\ pc[t] = "cas"
        /\ head[t] \in Slots
        /\ freeList[1] # head[t]
        /\ InUseCount(head[t]) = 1

\* C13 (cache isolation): a step of thread t inside allocate or deallocate
\* leaves the cache head and the cached list of every other thread as
\* they are.
C13_CacheIsolation ==
    [][\/ (localCache' = localCache /\ next' = next)
       \/ \A t \in Threads :
            (AllocStep(t) \/ \E p \in Pools, s \in Slots : Deallocate(t, p, s)) =>
                \A u \in Threads \ {t} :
                    /\ localCache'[u] = localCache[u]
                    /\ CacheSeq(u)' = CacheSeq(u)]_vars

\* C13 witness: both threads have a slot in their caches and one of them is
\* about to pop its own.
C13_Witness ==
    \E t, u \in Threads :
        /\ t # u
        /\ localCache[t] # Null
        /\ localCache[u] # Null
        /\ pc[t] = "start"

\* ------------------------------------------------- constructor, in bytes
\* constexpr std::size_t CACHE_LINE
CACHE_LINE == 64
\* sizeof(FreeNode): one pointer (LP64)
PtrSize == 8
\* the address std::aligned_alloc returns: a multiple of CACHE_LINE
Base == 4096
\* an indeterminate byte
NoByte == -1

poolVars == <<live, freeList, next, localCache, pc, pool, head, nxt, inUse,
              freed>>

\* total_bytes(): poolSize * sizeof(T).
total_bytes(n, sz) == n * sz
\* Mutant: the padding is added also when the size is a multiple already.
RoundUp_Always(size) == size + (CACHE_LINE - (size % CACHE_LINE))
\* The size passed to aligned_alloc: size rounded up to the cache line.
RoundUp(size) ==
    IF size % CACHE_LINE # 0 THEN size + (CACHE_LINE - (size % CACHE_LINE))
    ELSE size

\* The object representation of pointer v: PtrSize bytes, least significant
\* first.  The addresses of the model are below 2^24: bytes 3.. are zero.
Encode(v) == [k \in 0..(PtrSize - 1) |-> IF k < 3 THEN (v \div (256 ^ k)) % 256 ELSE 0]
\* The pointer values whose representation can be told apart here: nullptr
\* and the addresses in and around the block.
Addrs == {Null} \cup (Base .. (Base + RoundUp(MaxCap * MaxElemSize) + PtrSize))
\* The PtrSize bytes of the block at offset off (the bytes of a FreeNode
\* there); bytes past the block are indeterminate.
ReadBytes(mem, off) ==
    [k \in 0..(PtrSize - 1) |->
        IF off + k \in DOMAIN mem THEN mem[off + k] ELSE NoByte]
\* The pointer the bytes bs represent; Garbage: no nullptr and no address
\* near the block.
Decode(bs) ==
    IF \E v \in Addrs : Encode(v) = bs
    THEN CHOOSE v \in Addrs : Encode(v) = bs
    ELSE Garbage
\* The block after the PtrSize bytes bs are stored at offset off.
WriteBytes(mem, off, bs) ==
    [o \in DOMAIN mem |->
        IF off <= o /\ o < off + PtrSize THEN bs[o - off] ELSE mem[o]]

\* buffer + i * sizeof(T), i counted from 0
SlotAddr(i) == Base + i * ctor.S
SlotAddrs == {SlotAddr(i) : i \in 0..(ctor.N - 1)}

\* std::size_t size = total_bytes(); round up to a multiple of CACHE_LINE.
CtorSize ==
    /\ ctor.pcc = "size"
    /\ ctor' = [ctor EXCEPT !.size = RoundUp(total_bytes(ctor.N, ctor.S)),
                            !.align = CACHE_LINE,
                            !.pcc = "alloc"]
    /\ UNCHANGED poolVars

\* std::aligned_alloc returns a block of size bytes, contents indeterminate.
CtorAllocOk ==
    /\ ctor.pcc = "alloc"
    /\ ctor' = [ctor EXCEPT !.mem = [o \in 0..(ctor.size - 1) |-> NoByte],
                            !.pcc = "build"]
    /\ UNCHANGED poolVars

\* std::aligned_alloc returns nullptr (it may, also for size 0): bad_alloc.
CtorAllocFail ==
    /\ ctor.pcc = "alloc"
    /\ ctor' = [ctor EXCEPT !.pcc = "threw"]
    /\ UNCHANGED poolVars

\* Mutant: the loop body forgets head = node.
CtorLink_KeepHead ==
    /\ ctor.pcc = "build"
    /\ ctor.i < ctor.N
    /\ ctor' = [ctor EXCEPT
                  !.mem = WriteBytes(@, ctor.i * ctor.S, Encode(ctor.head)),
                  !.over = @ \/ (ctor.i * ctor.S + PtrSize > ctor.size),
                  !.i = @ + 1]
    /\ UNCHANGED poolVars

\* One turn of the loop: node = buffer + i * sizeof(T); node->next = head;
\* head = node.  A store past the end of the block is recorded in over.
CtorLink ==
    /\ ctor.pcc = "build"
    /\ ctor.i < ctor.N
    /\ ctor' = [ctor EXCEPT
                  !.mem = WriteBytes(@, ctor.i * ctor.S, Encode(ctor.head)),
                  !.over = @ \/ (ctor.i * ctor.S + PtrSize > ctor.size),
                  !.head = SlotAddr(ctor.i),
                  !.i = @ + 1]
    /\ UNCHANGED poolVars

\* freeList.store(head) after the loop.
CtorPublish ==
    /\ ctor.pcc = "build"
    /\ ~(ctor.i < ctor.N)
    /\ ctor' = [ctor EXCEPT !.freeList = ctor.head, !.pcc = "ready"]
    /\ UNCHANGED poolVars

\* allocate() by the one thread that uses the fresh pool: the cache is empty,
\* nobody competes; the head is popped and its link becomes the head.
PopFresh ==
    /\ ctor.pcc = "ready"
    /\ ctor.freeList \in SlotAddrs
    /\ ctor' = [ctor EXCEPT
                  !.got = Append(@, ctor.freeList),
                  !.freeList = Decode(ReadBytes(ctor.mem, ctor.freeList - Base))]
    /\ UNCHANGED poolVars

\* allocate() finds the list empty and returns nullptr.
PopNone ==
    /\ ctor.pcc = "ready"
    /\ ctor.freeList = Null
    /\ ctor' = [ctor EXCEPT !.pcc = "exhausted"]
    /\ UNCHANGED poolVars

\* allocate() finds a head that is no slot and dereferences it.
PopWild ==
    /\ ctor.pcc = "ready"
    /\ ctor.freeList \notin SlotAddrs \cup {Null}
    /\ ctor' = [ctor EXCEPT !.pcc = "wild"]
    /\ UNCHANGED poolVars

NextCtor ==
    \/ CtorSize
    \/ CtorAllocOk
    \/ CtorAllocFail
    \/ CtorLink
    \/ CtorPublish
    \/ PopFresh
    \/ PopNone
    \/ PopWild

\* A constructor of any capacity and element size within the bounds starts.
InitCtor ==
    /\ ctor \in {CtorAt(n, sz, "size") : n \in 0..MaxCap, sz \in 1..MaxElemSize}
    /\ InitPools({})

SpecCtor == InitCtor /\ [][NextCtor]_vars

\* The free list of the block as the bytes spell it: the addresses met from
\* h on, following the stored links, at most n of them.
RECURSIVE CtorChain(_, _)
CtorChain(h, n) ==
    IF h \notin SlotAddrs \/ n = 0 THEN <<>>
    ELSE <<h>> \o CtorChain(Decode(ReadBytes(ctor.mem, h - Base)), n - 1)
\* The pointer that ends that walk.
RECURSIVE CtorChainEnd(_, _)
CtorChainEnd(h, n) ==
    IF h \notin SlotAddrs \/ n = 0 THEN h
    ELSE CtorChainEnd(Decode(ReadBytes(ctor.mem, h - Base)), n - 1)
\* The slots from the highest index down to slot 0.
Descending == [k \in 1..ctor.N |-> SlotAddr(ctor.N - k)]
\* The slot number the pool model gives to address a of pool 1.
AddrToSlot(a) ==
    IF a = Null THEN Null ELSE SlotOf(1, ((a - Base) \div ctor.S) + 1)

\* C14 (initial chain): for an element that holds a pointer, after the
\* constructor the free list is the N slots once each from the highest index
\* down to slot 0 and ends in nullptr (it is the chain InitialHead and
\* InitialNext give the pool model); a single thread allocating from the
\* fresh pool receives the slots in that order and then nullptr; for N = 0
\* the list is empty and the first allocate returns nullptr.
C14_InitialChain ==
    ctor.S >= PtrSize =>
      /\ (ctor.pcc = "ready" /\ ctor.got = <<>>) =>
            /\ CtorChain(ctor.freeList, ctor.N + 1) = Descending
            /\ CtorChainEnd(ctor.freeList, ctor.N + 1) = Null
            /\ ctor.N = 0 => ctor.freeList = Null
            /\ ctor.N = PoolSize =>
                 /\ AddrToSlot(ctor.freeList) = InitialHead(1)
                 /\ \A i \in 1..PoolSize :
                      AddrToSlot(Decode(ReadBytes(ctor.mem, (i - 1) * ctor.S)))
                         = InitialNext(1, i)
      /\ ctor.pcc \in {"ready", "exhausted"} =>
            ctor.got = SubSeq(Descending, 1, Len(ctor.got))
      /\ ctor.pcc = "exhausted" => Len(ctor.got) = ctor.N
      /\ ctor.pcc # "wild"

\* C14 witness: a pool of several slots has been drained by the single thread
\* and its next allocate has returned nullptr.
C14_Witness ==
    /\ ctor.pcc = "exhausted"
    /\ ctor.S >= PtrSize
    /\ ctor.N >= 2
    /\ Len(ctor.got) = ctor.N

\* The link the constructor stored in slot s.
BuiltLink(s) == InitialNext(PoolOf(s), IndexOf(s))
\* The part of the constructed chain of pool p that starts at pointer h.
BuiltFrom(p, h) == [k \in 1..Rank(h) |-> SlotOf(p, Rank(h) - k + 1)]

\* C15 (no stale link installed): the global list always is a suffix of the
\* chain the constructor built; a successful compare-and-swap installs the
\* link the constructor stored in the popped slot, whenever that link was
\* read; and a thread that holds a different value for the link (read from
\* bytes overwritten since) stands before a compare-and-swap that fails.
C15_NoStaleLink ==
    /\ [](/\ freeList[1] \in SlotsOf(1) \cup {Null}
          /\ GlobalSeq(1) = BuiltFrom(1, freeList[1])
          /\ ChainEnd(freeList[1], MaxChain) = Null
          /\ \A t \in Threads :
               (pc[t] = "cas" /\ head[t] \in Slots /\ nxt[t] # BuiltLink(head[t]))
                  => freeList[pool[t]] # head[t])
    /\ [][\A t \in Threads :
            (pc[t] = "cas" /\ pc'[t] = "idle") =>
                /\ freeList[pool[t]] = head[t]
                /\ freeList'[pool[t]] = BuiltLink(head[t])]_vars

\* C15 witness: a thread stands before its compare-and-swap with a link
\* value that is not the one the constructor stored in the slot it observed.
C15_Witness ==
    \E t \in Threads :
        /\ pc[t] = "cas"
        /\ head[t] \in Slots
        /\ nxt[t] # BuiltLink(head[t])

\* ------------------------------------------------------------ thread exit
\* Mutant: a thread that ends gives its cached slots back to the global list.
ThreadExit_Drain(t) ==
    /\ pc[t] = "idle"
    /\ LET q == CacheSeq(t)
       IN  IF q = <<>> THEN UNCHANGED <<freeList, next>>
           ELSE /\ next' = [next EXCEPT ![q[Len(q)]] = freeList[1]]
                /\ freeList' = [freeList EXCEPT ![1] = q[1]]
    /\ localCache' = [localCache EXCEPT ![t] = Null]
    /\ freed' = [freed EXCEPT ![t] = <<>>]
    /\ UNCHANGED <<ctor, live, pc, pool, head, nxt, inUse>>

\* Thread t ends outside any call and a new thread takes its place: the
\* thread_local _localCache of t is gone with whatever list it headed (the
\* pointer has no destructor), and the new thread's _localCache is nullptr.
ThreadExit(t) ==
    /\ pc[t] = "idle"
    /\ localCache' = [localCache EXCEPT ![t] = Null]
    /\ freed' = [freed EXCEPT ![t] = <<>>]
    /\ UNCHANGED <<ctor, live, freeList, next, pc, pool, head, nxt, inUse>>

NextExit ==
    \/ \E t \in Threads : AllocStep(t)
    \/ \E t \in Threads, p \in Pools, s \in Slots : Deallocate(t, p, s)
    \/ \E s \in Slots : CallerWrite(s)
    \/ ThreadExit(1)

\* One pool object; thread 1 and its successors come and go, the other
\* threads live on.
SpecExit == Init /\ [][NextExit]_vars

\* Slot s of the pool is in no list and in nobody's hands.
Stranded(s) ==
    /\ inUse[1][s] = 0
    /\ s \notin GlobalSet(1)
    /\ \A t \in Threads : s \notin CacheSet(t)
StrandedSet == {s \in SlotsOf(1) : Stranded(s)}

\* C16 (thread exit strands slots): the slots in the cache of a thread that
\* ends are from then on in no list; a slot in no list stays so and no
\* allocate of any thread returns it; and the slots in use never number more
\* than N less the slots so lost.
C16_ExitStrands ==
    /\ [][/\ \A t \in Threads :
               (pc[t] = "idle" /\ localCache[t] # Null /\ ThreadExit(t)) =>
                   \A s \in CacheSet(t) : Stranded(s)'
          /\ \/ UNCHANGED <<freeList, next, localCache, inUse>>
             \/ \A s \in SlotsOf(1) :
                  Stranded(s) =>
                     /\ Stranded(s)'
                     /\ \A t \in Threads : ~ReturnsSlot(t, s)]_vars
    /\ [](HandedOut(1) + Cardinality(StrandedSet) <= PoolSize)

\* C16 witness: a thread ended with a slot in its cache, every other slot is
\* in use, and a thread's allocate has found the global list empty.
C16_Witness ==
    /\ StrandedSet # {}
    /\ HandedOut(1) = PoolSize - Cardinality(StrandedSet)
    /\ HandedOut(1) > 0
    /\ \E t \in Threads : ObservedEmpty(t)

\* ---------------------------------------------------------- pool lifetime
\* ~LockFreeMemoryPool on pool p, every slot given back and no call running
\* on it: std::free(buffer).  The bytes of the block are no longer the
\* pool's; no thread's _localCache is touched.
Destroy(p) ==
    /\ p \in live
    /\ \A t \in Threads : pool[t] # p
    /\ HandedOut(p) = 0
    /\ live' = live \ {p}
    /\ freeList' = [freeList EXCEPT ![p] = Null]
    /\ next' = [s \in Slots |-> IF s \in SlotsOf(p) THEN Garbage ELSE next[s]]
    /\ UNCHANGED <<ctor, localCache, pc, pool, head, nxt, inUse, freed>>

\* A pool object of the same type is constructed: a block is allocated, the
\* chain is built and published.
Construct(p) ==
    /\ p \notin live
    /\ live' = live \cup {p}
    /\ freeList' = [freeList EXCEPT ![p] = InitialHead(p)]
    /\ next' = [s \in Slots |->
                  IF s \in SlotsOf(p) THEN InitialNext(p, IndexOf(s))
                  ELSE next[s]]
    /\ UNCHANGED <<ctor, localCache, pc, pool, head, nxt, inUse, freed>>

\* The pointers the callers hold, over all pools.
Held == SumOver([p \in Pools |-> HandedOut(p)], Pools)
\* A call of allocate by a caller that holds fewer than MaxHeld pointers.
LifeCall(t, p) == Held < MaxHeld /\ AllocCall(t, p)

NextLife ==
    \/ \E p \in Pools : LifeCall(1, p)
    \/ AllocRun(1)
    \/ \E p \in Pools, s \in Slots : Deallocate(1, p, s)
    \/ \E p \in Pools : Destroy(p)
    \/ \E p \in Pools : Construct(p)

\* One thread, as in main, constructs, uses and destroys pool objects of the
\* type.
SpecLife == Init /\ [][NextLife]_vars

\* C17 (no dangling cache entries after destruction): no thread's cache
\* refers to a slot of a pool that was destroyed, and no allocate returns
\* such a slot.
C17_NoDangling ==
    /\ [](\A t \in Threads :
            localCache[t] \in Slots => PoolOf(localCache[t]) \in live)
    /\ [][\A t \in Threads : \A s \in Slots :
            ReturnsSlot(t, s) => PoolOf(s) \in live']_vars

\* The link the loop stores in slot i (counted from 0).
StoredLink(i) == IF i = 0 THEN Null ELSE SlotAddr(i - 1)

\* C18 (free-node overlay fits the slot): for every element size and
\* capacity, the bytes of the link stored in slot i lie inside slot i and
\* inside the block, no store goes past the block, and every link stored so
\* far still reads as it was stored.
C18_OverlayFits ==
    /\ ~ctor.over
    /\ \A i \in 0..(ctor.i - 1) :
          /\ i * ctor.S + PtrSize <= (i + 1) * ctor.S
          /\ i * ctor.S + PtrSize <= ctor.size
          /\ ctor.got = <<>> =>
                ReadBytes(ctor.mem, i * ctor.S) = Encode(StoredLink(i))

\* C19 (block size rounding): the size passed to aligned_alloc is a multiple
\* of 64, not below N*S and less than 64 above it (so it is the smallest such
\* multiple, and N*S itself when that is a multiple), and the alignment
\* passed is 64.
C19_BlockSize ==
    ctor.pcc \notin {"none", "size"} =>
       /\ ctor.size % 64 = 0
       /\ ctor.size >= ctor.N * ctor.S
       /\ ctor.size - ctor.N * ctor.S < 64
       /\ ctor.align = 64
       /\ DOMAIN ctor.mem \in {{}, 0..(ctor.size - 1)}

\* C19 witness: a block has been obtained for a pool whose N*S is a positive
\* multiple of 64 and was requested with exactly that size.
C19_Witness ==
    /\ ctor.pcc = "build"
    /\ ctor.N * ctor.S > 0
    /\ ctor.size = ctor.N * ctor.S

====
